---- MODULE Spec2Model ----
(***************************************************************************)
(* VisionQuest (ImgSearch): the handlers of App.tsx (handleIndexFolder,    *)
(* processFileList, loadLibrary, handleSearch, findDuplicates, the library *)
(* modal), the image helpers of imageProcessing.ts and the Gemini wrappers *)
(* of geminiService.ts.                                                    *)
(*                                                                         *)
(* A handler that awaits is a sequence of steps, one per await, and the    *)
(* calls that are awaiting are part of the state (runs, searches,         *)
(* removals, loads): other handlers run between two of their steps.        *)
(*                                                                         *)
(* Strings the code inspects (file names, tags, queries, service answers)  *)
(* are sequences of one-character strings, so that split, trim,            *)
(* toLowerCase and includes are computed and not assumed.                  *)
(***************************************************************************)
EXTENDS Integers, Sequences, FiniteSets, TLC


\* ------------------------------------------------------------------ bounds

\* Longest file list a handler is given.
MaxBatch == 6
\* Longest file list in the folders with several pictures to store.
MaxShort == 2
\* Records the store holds before add() raises (the origin's storage quota).
MaxStore == 3
\* Calls of processFileList in flight at once.
MaxRuns == 2
\* Calls of handleIndexFolder that await their scan at once.
MaxScans == 1
\* Most image files in flight while calls overlap.
MaxOverlap == 2
\* Calls of handleSearch that await the expansion service at once.
MaxSearches == 2
\* Calls of the remove handler that await delete or toArray at once.
MaxRemovals == 2
\* Longest list the percentages are computed for.
MaxTotal == 40

\* --------------------------------------------------------- program constants

\* App.tsx:78  if (processedCount < 5)
TagLimit == 5
\* imageProcessing.ts:54  Array.from({ length: 64 }, ...)
HashLength == 64

\* setErrorMessage(null) and the two messages the pipeline sets.
NoError == "null"
NoImagesMessage == "No supported image files found in the selected folder."
DatabaseMessage == "Database access failed. Please ensure IndexedDB is enabled."


\* ------------------------------------------------------------------ strings

\* String.prototype.toLowerCase on the characters the model uses.
LowerChar(c) ==
  CASE c = "C" -> "c"
    [] c = "A" -> "a"
    [] c = "T" -> "t"
    [] c = "D" -> "d"
    [] OTHER -> c

toLowerCase(s) == [i \in 1..Len(s) |-> LowerChar(s[i])]

IsSpace(c) == c = " "

\* String.prototype.trim: leading and trailing white space removed.
RECURSIVE trimStart(_)
trimStart(s) ==
  IF s # <<>> /\ IsSpace(Head(s)) THEN trimStart(Tail(s)) ELSE s

RECURSIVE trimEnd(_)
trimEnd(s) ==
  IF s # <<>> /\ IsSpace(s[Len(s)]) THEN trimEnd(SubSeq(s, 1, Len(s) - 1)) ELSE s

trim(s) == trimEnd(trimStart(s))

\* String.prototype.split(','): always at least one piece ("" gives [""]).
RECURSIVE splitComma(_, _)
splitComma(s, cur) ==
  IF s = <<>> THEN <<cur>>
  ELSE IF Head(s) = "," THEN <<cur>> \o splitComma(Tail(s), <<>>)
  ELSE splitComma(Tail(s), Append(cur, Head(s)))

\* String.prototype.includes: needle is a contiguous part of hay.
includes(hay, needle) ==
  \E i \in 0..(Len(hay) - Len(needle)) :
    SubSeq(hay, i + 1, i + Len(needle)) = needle


\* ------------------------------------------------------------------ numbers

\* JavaScript numbers are IEEE 754 doubles. The two places where the code
\* divides and then multiplies (the progress percentage and the downscale
\* factor) are computed here as the doubles compute them. A natural number
\* is held as its binary digits, lowest first, without leading zeros; a
\* positive double is m * 2^e with m of at most 53 digits.
RECURSIVE Bits(_)
Bits(n) == IF n = 0 THEN <<>> ELSE <<n % 2>> \o Bits(n \div 2)

RECURSIVE Value(_)
Value(bits) == IF bits = <<>> THEN 0 ELSE Head(bits) + 2 * Value(Tail(bits))

RECURSIVE AddBits(_, _, _)
AddBits(a, b, carry) ==
  IF a = <<>> /\ b = <<>> THEN (IF carry = 1 THEN <<1>> ELSE <<>>)
  ELSE LET x == IF a = <<>> THEN 0 ELSE Head(a)
           y == IF b = <<>> THEN 0 ELSE Head(b)
           s == x + y + carry
       IN <<s % 2>> \o AddBits(IF a = <<>> THEN a ELSE Tail(a),
                               IF b = <<>> THEN b ELSE Tail(b), s \div 2)

Twice(bits) == IF bits = <<>> THEN <<>> ELSE <<0>> \o bits

RECURSIVE TimesBits(_, _)
TimesBits(bits, n) ==
  IF n = 0 THEN <<>>
  ELSE IF n % 2 = 1 THEN AddBits(bits, Twice(TimesBits(bits, n \div 2)), 0)
  ELSE Twice(TimesBits(bits, n \div 2))

Precision == 53

\* bits * 2^e, plus something below the lowest digit when sticky, rounded
\* to the nearest double, a tie to the even one.
RoundToDouble(bits, sticky, e) ==
  IF Len(bits) <= Precision THEN [m |-> bits, e |-> e]
  ELSE LET d == Len(bits) - Precision
           kept == SubSeq(bits, d + 1, Len(bits))
           below == sticky \/ \E i \in 1..(d - 1) : bits[i] = 1
           up == bits[d] = 1 /\ (below \/ kept[1] = 1)
           m == IF up THEN AddBits(kept, <<1>>, 0) ELSE kept
       IN IF Len(m) > Precision
          THEN [m |-> Tail(m), e |-> e + d + 1]
          ELSE [m |-> m, e |-> e + d]

\* The digits of r / b behind the point, after `steps` of them have given
\* `acc`, until there are two more than a double keeps or nothing is left.
RECURSIVE Quotient(_, _, _, _)
Quotient(r, b, acc, steps) ==
  IF r = 0 \/ Len(acc) >= Precision + 2
  THEN [bits |-> acc, steps |-> steps, sticky |-> r # 0]
  ELSE LET bit == IF 2 * r >= b THEN 1 ELSE 0
           next == IF acc = <<>> /\ bit = 0 THEN <<>> ELSE <<bit>> \o acc
       IN Quotient(2 * r - bit * b, b, next, steps + 1)

\* a / b for integers a >= 0, b > 0.
Divide(a, b) ==
  LET q == Quotient(a % b, b, Bits(a \div b), 0)
  IN RoundToDouble(q.bits, q.sticky, 0 - q.steps)

\* x * n for a double x and an integer n >= 0.
Times(x, n) == RoundToDouble(TimesBits(x.m, n), FALSE, x.e)

\* The integer part of x (x >= 0 and below 2^31).
RECURSIVE Scale(_, _)
Scale(n, e) == IF e = 0 THEN n ELSE Scale(2 * n, e - 1)

Truncate(x) ==
  IF x.e >= 0 THEN Scale(Value(x.m), x.e)
  ELSE IF 0 - x.e >= Len(x.m) THEN 0
  ELSE Value(SubSeq(x.m, 1 - x.e, Len(x.m)))

\* Math.round: the integer part, one more when the digit of weight 1/2 is set.
MathRound(x) ==
  Truncate(x) + (IF x.e < 0 /\ 0 - x.e <= Len(x.m) /\ x.m[0 - x.e] = 1 THEN 1 ELSE 0)

\* ------------------------------------------------------------------- files

ImageJpeg == <<"image", "jpeg">>
TextPlain == <<"text", "plain">>
MimeTypes == {ImageJpeg, TextPlain}

\* f.type.startsWith('image/')
IsImageType(t) == t[1] = "image"

NameCat == <<"C", "a", "t">>
NameDog == <<"d">>

\* A File as the loop body reads it: name, size, what FileReader and the
\* Image decoder make of its bytes (data), and the pixels it decodes to with
\* their width and height (img.width, img.height).
\* FileCat2 is the picture of FileCat1 saved again with other metadata: the
\* same name and pixels, another size. FileSliver is a line 4000 pixels
\* wide and 2 high.
FileCat1 ==
  [name |-> NameCat, size |-> 1, data |-> "ok", pixels |-> "p", width |-> 800, height |-> 600]
FileCat2 ==
  [name |-> NameCat, size |-> 2, data |-> "ok", pixels |-> "p", width |-> 800, height |-> 600]
FileCorrupt ==
  [name |-> NameDog, size |-> 3, data |-> "corrupt", pixels |-> "none", width |-> 0, height |-> 0]
FileUnreadable ==
  [name |-> NameDog, size |-> 4, data |-> "unreadable", pixels |-> "none", width |-> 0, height |-> 0]
FileSliver ==
  [name |-> NameDog, size |-> 5, data |-> "ok", pixels |-> "q", width |-> 4000, height |-> 2]

\* Three folders the user picks from: one with the picture, one with the
\* picture saved twice, one with the line.
ImageFiles == {FileCat1, FileCorrupt, FileUnreadable}
ReindexFiles == {FileCat1, FileCat2, FileCorrupt, FileUnreadable}
SliverFiles == {FileSliver, FileCorrupt, FileUnreadable}
NoFile ==
  [name |-> <<>>, size |-> 0, data |-> "none", pixels |-> "none", width |-> 0, height |-> 0]

\* The file lists processFileList is called with, by the MIME type of each
\* entry (all that lines 54-60 read of them).
RECURSIVE SeqsUpTo(_, _)
SeqsUpTo(S, n) ==
  IF n = 0 THEN {<<>>}
  ELSE LET shorter == SeqsUpTo(S, n - 1)
       IN shorter \cup {Append(s, x) : s \in {t \in shorter : Len(t) = n - 1}, x \in S}

\* Every list of up to MaxShort entries, and with them the lists of up to
\* MaxBatch image files: lines 54-60 read of a list only which entries are
\* image files, and the loop only how many.
ShortLists == SeqsUpTo(MimeTypes, MaxShort)
FileLists == ShortLists \cup SeqsUpTo({ImageJpeg}, MaxBatch)

\* The filter left out: every entry is kept.
filterNothing(fileList) == fileList

\* Array.from(fileList).filter(f => f.type.startsWith('image/'))
RECURSIVE filterImages(_)
filterImages(fileList) ==
  IF fileList = <<>> THEN <<>>
  ELSE IF IsImageType(Head(fileList))
       THEN <<Head(fileList)>> \o filterImages(Tail(fileList))
       ELSE filterImages(Tail(fileList))


\* Math.round((processedCount / files.length) * 100)
roundProgress(count, total) == MathRound(Times(Divide(count, total), 100))

\* The percentages of lines 69 and 98 for the lists of up to MaxTotal
\* files, computed once.
Percentages ==
  [total \in 1..MaxTotal |-> [count \in 1..total |-> roundProgress(count, total)]]

\* ------------------------------------------------------- imageProcessing.ts

\* A 64-character string of '0' and '1' whose first k characters are '1'.
HashOnes(k) == [i \in 1..HashLength |-> IF i <= k THEN "1" ELSE "0"]

\* The fingerprints Math.random is let to produce while indexing.
HashSamples == {HashOnes(0), HashOnes(2)}

\* imageProcessing.ts:12-13
MAX_WIDTH == 400
MAX_HEIGHT == 400

\* Lines 14-31: the size of the canvas. The longer side over 400 is set to
\* 400 and the other side multiplied by the double MAX / side; canvas.width
\* and canvas.height keep the integer part of what they are assigned.
canvasSize(width, height) ==
  IF width > height
  THEN IF width > MAX_WIDTH
       THEN [width |-> MAX_WIDTH,
             height |-> Truncate(Times(Divide(MAX_WIDTH, width), height))]
       ELSE [width |-> width, height |-> height]
  ELSE IF height > MAX_HEIGHT
       THEN [width |-> Truncate(Times(Divide(MAX_HEIGHT, height), width)),
             height |-> MAX_HEIGHT]
       ELSE [width |-> width, height |-> height]

\* canvas.toDataURL('image/jpeg', 0.8): "data:," for a canvas without
\* pixels, else the JPEG of the downscaled pixels.
EmptyDataUrl == <<"data:,">>
toDataURL(canvas, pixels) ==
  IF canvas.width = 0 \/ canvas.height = 0 THEN EmptyDataUrl
  ELSE <<"data:image/jpeg", pixels>>

\* generateThumbnail, resolved: the data URL of the canvas. Nothing on the
\* way tests the size of the canvas.
generateThumbnail(file) == toDataURL(canvasSize(file.width, file.height), file.pixels)

\* calculatePHash: 64 draws of Math.round(Math.random()); the argument is
\* not read. The set of strings one call may return.
calculatePHash(thumbnailDataUrl) == HashSamples


\* --------------------------------------------------------- geminiService.ts

\* What ai.models.generateContent does with the tagging request: it throws
\* (failed), or resolves with a text.
TagResponses ==
  { [failed |-> TRUE, text |-> <<>>],
    [failed |-> FALSE, text |-> <<"C", "a", "t", ",", " ", "d">>] }

\* analyzeImageSemantics: split(',') then trim().toLowerCase(); [] on a throw.
analyzeImageSemantics(response) ==
  IF response.failed THEN <<>>
  ELSE LET parts == splitComma(response.text, <<>>)
       IN [i \in 1..Len(parts) |-> toLowerCase(trim(parts[i]))]

\* -------------------------------------------------------------------- state

VARIABLES
  store,           \* db.images: the records in primary-key order
  lastId,          \* the key generator of db.images (++id)
  images,          \* React state: the library as loadLibrary last read it
  isIndexing,      \* React state
  progress,        \* React state: percentage shown by the overlay
  errorMessage,    \* React state
  selectedImage,   \* React state: the record the modal shows
  searchQuery,     \* React state: the text of the search box
  searchResults,   \* React state: the list the search and duplicate views show
  activeView,      \* React state
  picker,          \* a call of showDirectoryPicker is pending: the directory
                   \* picker is open
  fileInput,       \* the file dialog of the file input is open
  scans,           \* calls of handleIndexFolder that await the scan of a folder
  runs,            \* the calls of processFileList that are awaiting, oldest first
  loads,           \* calls of loadLibrary outside a run that await toArray
  searches,        \* the calls of handleSearch that await searchByDescription
  removals,        \* the calls of the remove handler that await delete
  lastStep,        \* what the last step was: a call of processFileList with or
                   \* without image files, the end of the iteration of one
                   \* file and how it ended, or none of these
  resultsFrom      \* which handler set searchResults, and for which query

vars == <<store, lastId, images, isIndexing, progress, errorMessage,
          selectedImage, searchQuery, searchResults, activeView, picker, fileInput, runs,
          loads, searches, removals, lastStep, resultsFrom, scans>>

\* What the indexing handlers leave alone, and what the views leave alone.
viewState == <<selectedImage, searchQuery, searchResults, activeView, loads,
               searches, removals, resultsFrom>>
indexState == <<store, lastId, images, isIndexing, progress, errorMessage,
                picker, fileInput, runs, scans>>

NoThumbnail == <<>>
NoHash == <<>>
NoImage == [id |-> 0]
NoResults == [path |-> "none", query |-> <<>>, images |-> <<>>]

\* The state after the first render over a new database: the mount effect
\* has called loadLibrary, which awaits toArray.
Init ==
  /\ store = <<>>
  /\ lastId = 0
  /\ images = <<>>
  /\ isIndexing = FALSE
  /\ progress = 0
  /\ errorMessage = NoError
  /\ selectedImage = NoImage
  /\ searchQuery = <<>>
  /\ searchResults = <<>>
  /\ activeView = "library"
  /\ picker = FALSE
  /\ fileInput = FALSE
  /\ scans = 0
  /\ runs = <<>>
  /\ loads = 1
  /\ searches = <<>>
  /\ removals = <<>>
  /\ lastStep = "none"
  /\ resultsFrom = NoResults

Remove(seq, i) == SubSeq(seq, 1, i - 1) \o SubSeq(seq, i + 1, Len(seq))

\* ---------------------------------------------------------------- the store

\* db.images.where('fileName').equals(name).first(): the record of that name
\* with the lowest primary key, or undefined.
HasFileName(name) == \E i \in 1..Len(store) : store[i].fileName = name

firstByFileName(name) ==
  store[CHOOSE i \in 1..Len(store) :
          /\ store[i].fileName = name
          /\ \A j \in 1..(i - 1) : store[j].fileName # name]

\* Line 67: existing && existing.fileSize === file.size
alreadyIndexed(f) ==
  HasFileName(f.name) /\ firstByFileName(f.name).fileSize = f.size

\* Lines 82-92: the record handed to add(), with the key add() gives it.
newRecord(run) ==
  [id |-> lastId + 1, fileName |-> run.file.name, fileSize |-> run.file.size,
   thumbnail |-> run.thumbnail, pHash |-> run.pHash, tags |-> run.tags]

\* Lines 39-47: what loadLibrary does when toArray resolves or rejects.
loadLibrary(dbUp) ==
  IF dbUp
  THEN images' = store /\ errorMessage' = errorMessage
  ELSE images' = images /\ errorMessage' = DatabaseMessage

\* ------------------------------------------------------- processFileList

\* A call at its first await: the lookup for the first file. tagCalls counts
\* the calls of analyzeImageSemantics.
newRun(n) ==
  [pc |-> "lookup", totalCount |-> n, fetched |-> 1, processedCount |-> 0,
   file |-> NoFile, thumbnail |-> NoThumbnail, pHash |-> NoHash, tags |-> <<>>,
   tagCalls |-> 0]

\* Lines 49-62: the call up to its first await. The three setters of lines
\* 50-52 and those of 57-58 are one render.
processFileList(fileList) ==
  LET files == filterImages(fileList) IN
  /\ progress' = 0
  /\ lastStep' = IF \E i \in 1..Len(fileList) : IsImageType(fileList[i])
                 THEN "images" ELSE "noImage"
  /\ IF Len(files) = 0
     THEN /\ errorMessage' = NoImagesMessage
          /\ isIndexing' = FALSE
          /\ runs' = runs
     ELSE /\ errorMessage' = NoError
          /\ isIndexing' = TRUE
          /\ runs' = Append(runs, newRun(Len(files)))
  /\ UNCHANGED <<store, lastId, images>>

\* Lines 105-112 and 136-139: setErrorMessage(null), then the directory
\* picker where the browser has one, else the click on the file input. The
\* pickers are modal: the page takes no click while one is open.
handleIndexFolder ==
  /\ ~picker
  /\ ~fileInput
  /\ \/ picker' = TRUE /\ fileInput' = fileInput
     \/ picker' = picker /\ fileInput' = TRUE
  /\ errorMessage' = NoError
  /\ lastStep' = "none"
  /\ UNCHANGED <<store, lastId, images, isIndexing, progress, runs, scans>>
  /\ UNCHANGED viewState

\* Lines 112 and 131: the user closes the directory picker (AbortError).
pickerAborted ==
  /\ picker
  /\ picker' = FALSE
  /\ lastStep' = "none"
  /\ UNCHANGED <<store, lastId, images, isIndexing, progress, errorMessage, fileInput,
                 runs, scans>>
  /\ UNCHANGED viewState

\* Lines 112 and 130-134: showDirectoryPicker rejects with another error;
\* the file input is clicked.
pickerFailed ==
  /\ picker
  /\ picker' = FALSE
  /\ fileInput' = TRUE
  /\ lastStep' = "none"
  /\ UNCHANGED <<store, lastId, images, isIndexing, progress, errorMessage, runs, scans>>
  /\ UNCHANGED viewState

\* Lines 112-128: showDirectoryPicker resolves, the picker closes and the
\* call awaits the scan of the folder.
pickerResolved ==
  /\ picker
  /\ scans < MaxScans
  /\ picker' = FALSE
  /\ scans' = scans + 1
  /\ lastStep' = "none"
  /\ UNCHANGED <<store, lastId, images, isIndexing, progress, errorMessage, fileInput,
                 runs>>
  /\ UNCHANGED viewState

\* The files in the lists of the calls in flight.
RECURSIVE filesInFlight(_)
filesInFlight(rs) ==
  IF rs = <<>> THEN 0 ELSE Head(rs).totalCount + filesInFlight(Tail(rs))

\* The lists a handler is given: one without image files at any time, one
\* with image files while the calls in flight and their files stay within
\* the bounds.
Admitted(lists) ==
  {l \in lists :
     \/ \A i \in 1..Len(l) : ~IsImageType(l[i])
     \/ /\ Len(runs) < MaxRuns
        /\ \/ runs = <<>>
           \/ filesInFlight(runs) + Cardinality({i \in 1..Len(l) : IsImageType(l[i])})
                <= MaxOverlap}

\* Lines 113-129: the scan ends; it kept the image files and hands them on.
\* A picker opened by a later click stays as it is.
scanEnds(lists) ==
  /\ scans > 0
  /\ scans' = scans - 1
  /\ UNCHANGED <<picker, fileInput>>
  /\ \E files \in Admitted(lists) :
       /\ \A i \in 1..Len(files) : IsImageType(files[i])
       /\ processFileList(files)
  /\ UNCHANGED viewState

\* Lines 116-131: the iteration of the folder or getFile rejects with an
\* AbortError; the catch returns and the call is over.
scanAborted ==
  /\ scans > 0
  /\ scans' = scans - 1
  /\ lastStep' = "none"
  /\ UNCHANGED <<store, lastId, images, isIndexing, progress, errorMessage, picker,
                 fileInput, runs>>
  /\ UNCHANGED viewState

\* Lines 116-134: the iteration of the folder or getFile rejects with
\* another error; the catch clicks the file input. A picker opened by a
\* later click stays pending.
scanFails ==
  /\ scans > 0
  /\ scans' = scans - 1
  /\ fileInput' = TRUE
  /\ lastStep' = "none"
  /\ UNCHANGED <<store, lastId, images, isIndexing, progress, errorMessage, picker,
                 runs>>
  /\ UNCHANGED viewState

\* The user closes the file dialog: no change event.
fileInputCancelled ==
  /\ fileInput
  /\ fileInput' = FALSE
  /\ lastStep' = "none"
  /\ UNCHANGED <<store, lastId, images, isIndexing, progress, errorMessage, picker,
                 runs, scans>>
  /\ UNCHANGED viewState

\* Lines 142-146.
onFileInputChange(lists) ==
  /\ fileInput
  /\ fileInput' = FALSE
  /\ UNCHANGED <<picker, scans>>
  /\ \E fileList \in Admitted(lists) : processFileList(fileList)
  /\ UNCHANGED viewState

\* for (const file of files): the next file and its lookup, or the end of
\* the loop and line 101.
nextFile(run) ==
  IF run.fetched < run.totalCount
  THEN [run EXCEPT !.fetched = @ + 1, !.file = NoFile, !.pc = "lookup"]
  ELSE [run EXCEPT !.file = NoFile, !.pc = "loadLibrary"]

\* Lines 97-98 (and 68-70): the file is counted, the locals of the
\* iteration are gone and the loop goes on.
counted(run) ==
  nextFile([run EXCEPT !.processedCount = @ + 1, !.thumbnail = NoThumbnail,
                       !.pHash = NoHash, !.tags = <<>>])

progressAfter(run) == Percentages[run.totalCount][run.processedCount + 1]

\* A catch around the loop instead of inside it: the error ends the loop.
catchOutsideLoop(r, cause) ==
  /\ runs' = [runs EXCEPT ![r] = [@ EXCEPT !.file = NoFile, !.thumbnail = NoThumbnail,
                                            !.pHash = NoHash, !.tags = <<>>,
                                            !.pc = "loadLibrary"]]
  /\ progress' = progress
  /\ lastStep' = cause

\* Lines 93-98: the catch inside the loop, then the count.
catchItem(r, cause) ==
  /\ runs' = [runs EXCEPT ![r] = counted(@)]
  /\ progress' = progressAfter(runs[r])
  /\ lastStep' = cause

\* The skip going on without the count of line 68.
skipWithoutCounting(r) ==
  /\ runs' = [runs EXCEPT ![r] = nextFile(@)]
  /\ progress' = progress
  /\ lastStep' = "skipped"

\* Lines 67-71.
skipItem(r) ==
  /\ runs' = [runs EXCEPT ![r] = counted(@)]
  /\ progress' = progressAfter(runs[r])
  /\ lastStep' = "skipped"

\* Lines 63-71: the file at this place of the list, and the lookup by its
\* name. The store may raise.
lookupIn(r, folder) ==
  /\ runs[r].pc = "lookup"
  /\ \E f \in folder, dbUp \in BOOLEAN :
       IF ~dbUp THEN catchItem(r, "storeError")
       ELSE IF alreadyIndexed(f) THEN skipItem(r)
       ELSE /\ runs' = [runs EXCEPT ![r] = [@ EXCEPT !.pc = "thumbnail", !.file = f]]
            /\ progress' = progress
            /\ lastStep' = "none"
  /\ UNCHANGED <<store, lastId, images, isIndexing, errorMessage, picker, fileInput, scans>>
  /\ UNCHANGED viewState

lookupExisting == \E r \in 1..Len(runs) : lookupIn(r, ImageFiles)
lookupExistingReindex == \E r \in 1..Len(runs) : lookupIn(r, ReindexFiles)
lookupExistingSliver == \E r \in 1..Len(runs) : lookupIn(r, SliverFiles)


\* generateThumbnail for the files that decode, computed once.
Thumbnails ==
  [f \in {g \in ImageFiles \cup ReindexFiles \cup SliverFiles : g.data = "ok"}
     |-> generateThumbnail(f)]

\* Line 73, img.onload: the promise resolves with the thumbnail.
thumbnailResolved ==
  \E r \in 1..Len(runs) :
    /\ runs[r].pc = "thumbnail"
    /\ runs[r].file.data = "ok"
    /\ runs' = [runs EXCEPT ![r] = [@ EXCEPT !.thumbnail = Thumbnails[runs[r].file],
                                              !.pc = "pHash"]]
    /\ UNCHANGED <<store, lastId, images, isIndexing, progress, errorMessage, picker, fileInput, scans>>
    /\ lastStep' = "none"
    /\ UNCHANGED viewState

\* Line 73, img.onerror: the promise rejects and line 93 catches.
thumbnailRejected ==
  \E r \in 1..Len(runs) :
    /\ runs[r].pc = "thumbnail"
    /\ runs[r].file.data = "corrupt"
    /\ catchItem(r, "decodeError")
    /\ UNCHANGED <<store, lastId, images, isIndexing, errorMessage, picker, fileInput, scans>>
    /\ UNCHANGED viewState

\* Line 73, the FileReader fails: reader.onerror is not set, the promise
\* stays pending and the call waits for ever.
thumbnailNeverSettles ==
  \E r \in 1..Len(runs) :
    /\ runs[r].pc = "thumbnail"
    /\ runs[r].file.data = "unreadable"
    /\ runs' = [runs EXCEPT ![r] = [@ EXCEPT !.pc = "thumbnailPending"]]
    /\ UNCHANGED <<store, lastId, images, isIndexing, progress, errorMessage, picker, fileInput, scans>>
    /\ lastStep' = "none"
    /\ UNCHANGED viewState

\* The budget test with <= for <.
withinTagBudgetInclusive(run) == run.processedCount <= TagLimit

\* Line 78.
withinTagBudget(run) == run.processedCount < TagLimit

\* Lines 74-80: the fingerprint, then the tagging call or none.
fingerprint ==
  \E r \in 1..Len(runs) :
    /\ runs[r].pc = "pHash"
    /\ \E hash \in calculatePHash(runs[r].thumbnail) :
         runs' = [runs EXCEPT ![r] =
                    IF withinTagBudget(runs[r])
                    THEN [@ EXCEPT !.pHash = hash, !.tagCalls = @ + 1, !.pc = "tagging"]
                    ELSE [@ EXCEPT !.pHash = hash, !.pc = "add"]]
    /\ UNCHANGED <<store, lastId, images, isIndexing, progress, errorMessage, picker, fileInput, scans>>
    /\ lastStep' = "none"
    /\ UNCHANGED viewState

\* Line 79: analyzeImageSemantics resolves (with [] after a failure).
taggingReturns ==
  \E r \in 1..Len(runs) :
    /\ runs[r].pc = "tagging"
    /\ \E response \in TagResponses :
         runs' = [runs EXCEPT ![r] = [@ EXCEPT !.tags = analyzeImageSemantics(response),
                                                !.pc = "add"]]
    /\ UNCHANGED <<store, lastId, images, isIndexing, progress, errorMessage, picker, fileInput, scans>>
    /\ lastStep' = "none"
    /\ UNCHANGED viewState

\* Line 79: the service never answers; generateContent has no timeout.
taggingNeverReturns ==
  \E r \in 1..Len(runs) :
    /\ runs[r].pc = "tagging"
    /\ runs' = [runs EXCEPT ![r] = [@ EXCEPT !.pc = "taggingPending"]]
    /\ UNCHANGED <<store, lastId, images, isIndexing, progress, errorMessage, picker, fileInput, scans>>
    /\ lastStep' = "none"
    /\ UNCHANGED viewState

\* Lines 82-98: add() resolves, or raises and line 93 catches. The store
\* takes a record while it holds fewer than MaxStore.
addRecord ==
  \E r \in 1..Len(runs) :
    /\ runs[r].pc = "add"
    /\ \/ /\ Len(store) < MaxStore
          /\ store' = Append(store, newRecord(runs[r]))
          /\ lastId' = lastId + 1
          /\ runs' = [runs EXCEPT ![r] = counted(@)]
          /\ progress' = progressAfter(runs[r])
          /\ lastStep' = "persisted"
       \/ /\ store' = store
          /\ lastId' = lastId
          /\ catchItem(r, "storeError")
    /\ UNCHANGED <<images, isIndexing, errorMessage, picker, fileInput, scans>>
    /\ UNCHANGED viewState

\* Lines 101-102: loadLibrary settles, then setIsIndexing(false); the call
\* is over.
runLoadsLibrary ==
  \E r \in 1..Len(runs) :
    /\ runs[r].pc = "loadLibrary"
    /\ \E dbUp \in BOOLEAN : loadLibrary(dbUp)
    /\ isIndexing' = FALSE
    /\ runs' = Remove(runs, r)
    /\ UNCHANGED <<store, lastId, progress, picker, fileInput, scans>>
    /\ lastStep' = "none"
    /\ UNCHANGED viewState

\* Lines 35-47 and 461: toArray settles for a call of loadLibrary made by
\* the mount effect or by the remove handler.
loadResolves ==
  /\ loads > 0
  /\ loads' = loads - 1
  /\ \E dbUp \in BOOLEAN : loadLibrary(dbUp)
  /\ UNCHANGED <<store, lastId, isIndexing, progress, picker, fileInput, runs, scans>>
  /\ lastStep' = "none"
  /\ UNCHANGED <<selectedImage, searchQuery, searchResults, activeView, searches,
                 removals, resultsFrom>>

\* The steps the event loop takes when a promise of a run settles.
RunSteps(folder) ==
  \/ \E r \in 1..Len(runs) : lookupIn(r, folder)
  \/ thumbnailResolved
  \/ thumbnailRejected
  \/ thumbnailNeverSettles
  \/ fingerprint
  \/ taggingReturns
  \/ taggingNeverReturns
  \/ addRecord
  \/ runLoadsLibrary

\* The Index button, the pickers, the scan of the folder and the
\* continuations of the calls in flight, on the folder with the picture
\* and lists of up to MaxBatch entries. A click is taken whenever no picker
\* is open: while a load, a scan or a run is pending as well.
Next ==
  \/ handleIndexFolder
  \/ pickerAborted
  \/ pickerFailed
  \/ pickerResolved
  \/ scanEnds(FileLists)
  \/ scanAborted
  \/ scanFails
  \/ fileInputCancelled
  \/ onFileInputChange(FileLists)
  \/ lookupExisting
  \/ thumbnailResolved
  \/ thumbnailRejected
  \/ thumbnailNeverSettles
  \/ fingerprint
  \/ taggingReturns
  \/ taggingNeverReturns
  \/ addRecord
  \/ runLoadsLibrary
  \/ loadResolves

Spec == Init /\ [][Next]_vars

\* The same handlers on the folder with the line, with lists of up to
\* MaxShort entries.
SliverNext ==
  \/ handleIndexFolder
  \/ pickerAborted
  \/ pickerFailed
  \/ pickerResolved
  \/ scanEnds(ShortLists)
  \/ scanAborted
  \/ scanFails
  \/ fileInputCancelled
  \/ onFileInputChange(ShortLists)
  \/ lookupExistingSliver
  \/ thumbnailResolved
  \/ thumbnailRejected
  \/ thumbnailNeverSettles
  \/ fingerprint
  \/ taggingReturns
  \/ taggingNeverReturns
  \/ addRecord
  \/ runLoadsLibrary
  \/ loadResolves

SliverSpec == Init /\ [][SliverNext]_vars

\* The continuations of the calls in flight on that folder. The event loop
\* runs every continuation that is ready.
Continuations == RunSteps(SliverFiles) \/ loadResolves

FairSpec == SliverSpec /\ WF_vars(Continuations)

\* The page over the library of an earlier session, which holds the picture
\* under both of its sizes: the mount effect has called loadLibrary.
StoredCat(file, id) ==
  [id |-> id, fileName |-> file.name, fileSize |-> file.size,
   thumbnail |-> Thumbnails[file], pHash |-> HashOnes(0), tags |-> <<>>]

ReindexInit ==
  /\ store = <<StoredCat(FileCat1, 1), StoredCat(FileCat2, 2)>>
  /\ lastId = 2
  /\ images = <<>>
  /\ isIndexing = FALSE
  /\ progress = 0
  /\ errorMessage = NoError
  /\ selectedImage = NoImage
  /\ searchQuery = <<>>
  /\ searchResults = <<>>
  /\ activeView = "library"
  /\ picker = FALSE
  /\ fileInput = FALSE
  /\ scans = 0
  /\ runs = <<>>
  /\ loads = 1
  /\ searches = <<>>
  /\ removals = <<>>
  /\ lastStep = "none"
  /\ resultsFrom = NoResults

\* The same handlers on the folder with the picture saved twice, with lists
\* of up to MaxShort entries.
ReindexNext ==
  \/ handleIndexFolder
  \/ pickerAborted
  \/ pickerFailed
  \/ pickerResolved
  \/ scanEnds(ShortLists)
  \/ scanAborted
  \/ scanFails
  \/ fileInputCancelled
  \/ onFileInputChange(ShortLists)
  \/ lookupExistingReindex
  \/ thumbnailResolved
  \/ thumbnailRejected
  \/ thumbnailNeverSettles
  \/ fingerprint
  \/ taggingReturns
  \/ taggingNeverReturns
  \/ addRecord
  \/ runLoadsLibrary
  \/ loadResolves

ReindexSpec == ReindexInit /\ [][ReindexNext]_vars

\* ------------------------------------------------- the search and duplicate views

\* Longest library the views are run on.
MaxImages == 3

\* A similarity is a JavaScript number; the model keeps it as the fraction
\* num / den it is computed from (den > 0).
Fraction(n, d) == [num |-> n, den |-> d]
Less(a, b) == a.num * b.den < b.num * a.den

\* Lines 159-161: 0, 0.8, 1.0 or 1.8, in tenths.
lexicalScore(img, query) ==
  LET q == toLowerCase(query)
      byName == IF includes(toLowerCase(img.fileName), q) THEN 8 ELSE 0
      byTag == IF \E i \in 1..Len(img.tags) : includes(toLowerCase(img.tags[i]), q)
               THEN 10 ELSE 0
  IN Fraction(byName + byTag, 10)

\* Lines 158-166: the images with a positive score, in library order.
RECURSIVE lexicalPass(_, _)
lexicalPass(imgs, query) ==
  IF imgs = <<>> THEN <<>>
  ELSE LET score == lexicalScore(Head(imgs), query)
           rest == lexicalPass(Tail(imgs), query)
       IN IF score.num > 0
          THEN <<[image |-> Head(imgs), similarity |-> score]>> \o rest
          ELSE rest

\* Line 170: the distinct tags of the library.
allTags(imgs) ==
  UNION {{imgs[i].tags[j] : j \in 1..Len(imgs[i].tags)} : i \in 1..Len(imgs)}

\* What generateContent does with the expansion request: it throws, or
\* resolves with the JSON array that JSON.parse returns.
TagCat == <<"c", "a", "t">>
TagD == <<"d">>
TagX == <<"x">>
ExpandResponses ==
  { [failed |-> TRUE, keywords |-> <<>>],
    [failed |-> FALSE, keywords |-> <<>>],
    [failed |-> FALSE, keywords |-> <<TagD>>],
    [failed |-> FALSE, keywords |-> <<TagCat, TagD>>],
    [failed |-> FALSE, keywords |-> <<TagX, TagCat, TagD>>] }

\* searchByDescription: the parsed array, or [] after a throw.
searchByDescription(response) ==
  IF response.failed THEN <<>> ELSE response.keywords

\* Line 174: img.tags.filter(t => relevantKeywords.includes(t)), its length.
RECURSIVE overlapLength(_, _)
overlapLength(imgTags, relevantKeywords) ==
  IF imgTags = <<>> THEN 0
  ELSE (IF \E k \in 1..Len(relevantKeywords) : relevantKeywords[k] = Head(imgTags)
        THEN 1 ELSE 0)
       + overlapLength(Tail(imgTags), relevantKeywords)

\* Lines 173-178: the images that share a tag with the answer.
RECURSIVE semanticPass(_, _)
semanticPass(imgs, relevantKeywords) ==
  IF imgs = <<>> THEN <<>>
  ELSE LET overlap == overlapLength(Head(imgs).tags, relevantKeywords)
           rest == semanticPass(Tail(imgs), relevantKeywords)
       IN IF overlap > 0
          THEN <<[image |-> Head(imgs),
                  similarity |-> Fraction(overlap, Len(relevantKeywords))]>> \o rest
          ELSE rest

\* Array.prototype.sort with (a, b) => b.similarity - a.similarity: a stable
\* sort by descending similarity. insertResult puts r behind every result
\* that is not smaller.
insertResult(sorted, r) ==
  LET before == {i \in 1..Len(sorted) : \A j \in 1..i : ~Less(sorted[j].similarity, r.similarity)}
      k == Cardinality(before)
  IN SubSeq(sorted, 1, k) \o <<r>> \o SubSeq(sorted, k + 1, Len(sorted))

RECURSIVE sortBySimilarity(_)
sortBySimilarity(results) ==
  IF results = <<>> THEN <<>>
  ELSE insertResult(sortBySimilarity(SubSeq(results, 1, Len(results) - 1)),
                    results[Len(results)])

\* The fallback entered whenever the library has tags, whatever the lexical
\* pass found.
expandsRegardless(lexical, imgs) == allTags(imgs) # {}

\* Lines 169 and 171: if (results.length === 0), if (allTags.length > 0).
needsExpansion(lexical, imgs) == Len(lexical) = 0 /\ allTags(imgs) # {}

\* Lines 180-183: the sort, setSearchResults and setActiveView(Search).
publish(results, path, imgs, query) ==
  /\ searchResults' = sortBySimilarity(results)
  /\ activeView' = "search"
  /\ resultsFrom' = [path |-> path, query |-> query, images |-> imgs]

\* Lines 148-172: the call up to the await of line 172, or to its end when
\* the expansion is not needed. A call that awaits holds the images and the
\* query of the render it was made in.
handleSearch ==
  /\ UNCHANGED indexState
  /\ lastStep' = "none"
  /\ UNCHANGED <<selectedImage, searchQuery, loads, removals>>
  /\ IF trim(searchQuery) = <<>>
     THEN /\ searchResults' = <<>>
          /\ activeView' = "library"
          /\ resultsFrom' = [path |-> "blank", query |-> searchQuery, images |-> images]
          /\ searches' = searches
     ELSE LET lexical == lexicalPass(images, searchQuery) IN
          IF needsExpansion(lexical, images)
          THEN /\ Len(searches) < MaxSearches
               /\ searches' = Append(searches, [images |-> images, query |-> searchQuery])
               /\ UNCHANGED <<searchResults, activeView, resultsFrom>>
          ELSE /\ publish(lexical, "lexical", images, searchQuery)
               /\ searches' = searches

\* Lines 172-183: searchByDescription resolves and the call goes on with
\* the images it was made with.
searchAnswered ==
  \E i \in 1..Len(searches), response \in ExpandResponses :
    /\ publish(semanticPass(searches[i].images, searchByDescription(response)),
               "semantic", searches[i].images, searches[i].query)
    /\ searches' = Remove(searches, i)
    /\ UNCHANGED indexState
    /\ lastStep' = "none"
    /\ UNCHANGED <<selectedImage, searchQuery, loads, removals>>

\* Lines 236, 243 and 255: the Library, Search and Settings buttons.
setActiveView(view) ==
  /\ activeView' = view
  /\ UNCHANGED indexState
  /\ lastStep' = "none"
  /\ UNCHANGED <<selectedImage, searchQuery, searchResults, loads, searches,
                 removals, resultsFrom>>

\* imageProcessing.ts:58-64: the places of h1 where h2 differs (or ends).
hammingDistance(h1, h2) ==
  Cardinality({i \in 1..Len(h1) : i > Len(h2) \/ h1[i] # h2[i]})

\* App.tsx:196  if (dist < 5)
DuplicateThreshold == 5

withinThreshold(dist) == dist < DuplicateThreshold

\* The last close entry of seenHashes instead of the first.
lastMatch(seenHashes, hash) ==
  LET close == {k \in 1..Len(seenHashes) :
                  withinThreshold(hammingDistance(seenHashes[k].hash, hash))}
  IN IF close = {} THEN 0 ELSE CHOOSE k \in close : \A m \in close : k >= m

\* Lines 194-201: the first entry of seenHashes, in insertion order, closer
\* than the threshold; 0 when there is none.
firstMatch(seenHashes, hash) ==
  LET close == {k \in 1..Len(seenHashes) :
                  withinThreshold(hammingDistance(seenHashes[k].hash, hash))}
  IN IF close = {} THEN 0 ELSE CHOOSE k \in close : \A m \in close : k <= m

\* Map.prototype.set: a new key goes last, a known key keeps its place.
mapSet(seenHashes, hash, img) ==
  IF \E k \in 1..Len(seenHashes) : seenHashes[k].hash = hash
  THEN [k \in 1..Len(seenHashes) |->
          IF seenHashes[k].hash = hash THEN [hash |-> hash, image |-> img]
          ELSE seenHashes[k]]
  ELSE Append(seenHashes, [hash |-> hash, image |-> img])

\* Lines 187-203: the loop, as results and seenHashes after the first n
\* images. attached keeps, for every match, the image and the existingImg of
\* line 194 it matched.
RECURSIVE duplicateScan(_, _)
duplicateScan(imgs, n) ==
  IF n = 0 THEN [results |-> <<>>, seenHashes |-> <<>>, attached |-> <<>>]
  ELSE LET prev == duplicateScan(imgs, n - 1)
           img == imgs[n]
           k == firstMatch(prev.seenHashes, img.pHash)
       IN IF img.pHash = NoHash THEN prev
          ELSE IF k # 0
          THEN [results |-> Append(prev.results,
                   [image |-> img,
                    similarity |-> Fraction(HashLength - hammingDistance(prev.seenHashes[k].hash, img.pHash),
                                            HashLength)]),
                seenHashes |-> prev.seenHashes,
                attached |-> Append(prev.attached,
                   [image |-> img, existingImg |-> prev.seenHashes[k].image])]
          ELSE [results |-> prev.results,
                seenHashes |-> mapSet(prev.seenHashes, img.pHash, img),
                attached |-> prev.attached]

\* Lines 186-207.
findDuplicates ==
  /\ searchResults' = duplicateScan(images, Len(images)).results
  /\ activeView' = "duplicates"
  /\ resultsFrom' = [path |-> "duplicates", query |-> <<>>, images |-> images]
  /\ UNCHANGED indexState
  /\ lastStep' = "none"
  /\ UNCHANGED <<selectedImage, searchQuery, loads, searches, removals>>

\* Line 285: onChange of the search box.
Queries == {<<" ">>, <<"C", "A", "T">>, <<"d">>, <<"z">>}

setSearchQuery ==
  /\ \E q \in Queries : searchQuery' = q
  /\ UNCHANGED indexState
  /\ lastStep' = "none"
  /\ UNCHANGED <<selectedImage, searchResults, activeView, loads, searches,
                 removals, resultsFrom>>

\* Records as processFileList stores them: names of files, tags as
\* analyzeImageSemantics returns them (a service that repeats a tag gives it
\* twice), fingerprints as calculatePHash may draw them.
sampleRecord(name, size, tagList, ones) ==
  [id |-> 0, fileName |-> name, fileSize |-> size,
   thumbnail |-> <<"data:image/jpeg", "p">>, pHash |-> HashOnes(ones), tags |-> tagList]

RecordSamples ==
  { sampleRecord(NameCat, 1, <<TagCat, TagD>>, 0),
    sampleRecord(NameCat, 2, <<>>, 4),
    sampleRecord(NameDog, 2, <<TagD, TagD>>, 5),
    sampleRecord(NameDog, 3, <<TagCat>>, 8),
    sampleRecord(NameDog, 4, <<>>, 40) }

\* The store gives the records the ids 1, 2, ... in the order of the adds.
withIds(records) == [i \in 1..Len(records) |-> [records[i] EXCEPT !.id = i]]

Libraries == {withIds(recs) : recs \in SeqsUpTo(RecordSamples, MaxImages)}

\* The views run on a library that an earlier indexing has stored and
\* loadLibrary has read.
Loaded(lib) ==
  /\ store = lib
  /\ lastId = Len(lib)
  /\ isIndexing = FALSE
  /\ progress = 0
  /\ errorMessage = NoError
  /\ selectedImage = NoImage
  /\ searchQuery = <<>>
  /\ searchResults = <<>>
  /\ activeView = "library"
  /\ picker = FALSE
  /\ fileInput = FALSE
  /\ scans = 0
  /\ runs = <<>>
  /\ searches = <<>>
  /\ removals = <<>>
  /\ lastStep = "none"
  /\ resultsFrom = NoResults

SearchInit == \E lib \in Libraries : Loaded(lib) /\ images = lib /\ loads = 0

NavigableViews == {"library", "search", "settings"}

navigate == \E view \in NavigableViews : setActiveView(view)

\* The search box and the sidebar: the user types, searches and changes the
\* view.
SearchNext ==
  \/ setSearchQuery
  \/ handleSearch
  \/ searchAnswered
  \/ navigate

SearchSpec == SearchInit /\ [][SearchNext]_vars

\* The duplicate view: the user asks for the duplicates and changes the view.
DuplicateNext ==
  \/ findDuplicates
  \/ navigate

DuplicateSpec == SearchInit /\ [][DuplicateNext]_vars

\* ------------------------------------------------------ the detail modal

\* Line 337: the images of the grid.
shownImages ==
  IF images = <<>> /\ ~isIndexing THEN <<>>
  ELSE IF activeView = "library" THEN images
  ELSE [i \in 1..Len(searchResults) |-> searchResults[i].image]

\* Line 339: a click on an image of the grid; the modal covers the page.
setSelectedImage ==
  /\ selectedImage = NoImage
  /\ \E i \in 1..Len(shownImages) : selectedImage' = shownImages[i]
  /\ UNCHANGED indexState
  /\ lastStep' = "none"
  /\ UNCHANGED <<searchQuery, searchResults, activeView, loads, searches, removals,
                 resultsFrom>>

\* Lines 408 and 412: the backdrop and the close button.
closeModal ==
  /\ selectedImage # NoImage
  /\ selectedImage' = NoImage
  /\ UNCHANGED indexState
  /\ lastStep' = "none"
  /\ UNCHANGED <<searchQuery, searchResults, activeView, loads, searches, removals,
                 resultsFrom>>

\* Lines 457-459: the click on Remove from Index, up to the await.
removeFromIndex ==
  /\ selectedImage # NoImage
  /\ selectedImage.id # 0
  /\ Len(removals) + loads < MaxRemovals
  /\ removals' = Append(removals, selectedImage.id)
  /\ UNCHANGED indexState
  /\ lastStep' = "none"
  /\ UNCHANGED <<selectedImage, searchQuery, searchResults, activeView, loads,
                 searches, resultsFrom>>

\* Table.delete(key): the records without that key.
deleteRecord(records, id) == SelectSeq(records, LAMBDA rec : rec.id # id)

\* Lines 459-461: delete() resolves, the modal closes and loadLibrary is
\* called; or delete() rejects and the handler ends there.
removalResolves ==
  /\ removals # <<>>
  /\ removals' = Tail(removals)
  /\ \E dbUp \in BOOLEAN :
       IF dbUp
       THEN /\ store' = deleteRecord(store, Head(removals))
            /\ selectedImage' = NoImage
            /\ loads' = loads + 1
       ELSE UNCHANGED <<store, selectedImage, loads>>
  /\ UNCHANGED <<lastId, images, isIndexing, progress, errorMessage, picker, fileInput, runs,
                 scans>>
  /\ lastStep' = "none"
  /\ UNCHANGED <<searchQuery, searchResults, activeView, searches, resultsFrom>>

\* The page after the first render over a stored library: the mount effect
\* has called loadLibrary.
LibraryInit == \E lib \in Libraries : Loaded(lib) /\ images = <<>> /\ loads = 1

\* The library view and the modal: the user opens an image, removes it and
\* changes the view.
LibraryNext ==
  \/ loadResolves
  \/ setSelectedImage
  \/ closeModal
  \/ removeFromIndex
  \/ removalResolves
  \/ navigate

LibrarySpec == LibraryInit /\ [][LibraryNext]_vars



\* ------------------------------------------------------------------ claims

\* Where the loop body stands once the lookup has let the file through.
BodyPcs == {"thumbnail", "thumbnailPending", "pHash", "tagging", "taggingPending", "add"}

SameNameAndSizeStored(f) ==
  \E i \in 1..Len(store) : store[i].fileName = f.name /\ store[i].fileSize = f.size

\* A step of the call at place r of runs, which stays in flight.
StepOf(r) == Len(runs') = Len(runs) /\ runs'[r] # runs[r]

\* C1: a file whose name and size equal those of some stored record is
\* skipped: it never reaches the thumbnail, the fingerprint, the tagging call
\* or the add. (The code compares only the first record of that name.)
C1_StoredNameAndSizeIsSkipped ==
  \A r \in 1..Len(runs) :
    runs[r].pc \in BodyPcs => ~SameNameAndSizeStored(runs[r].file)

\* C2: a run calls the tagging service at most 5 times, only for files at
\* the first 5 places of the list, and a record added for a file at a later
\* place has no tags.
C2_TagBudget ==
  /\ [](\A r \in 1..Len(runs) : runs[r].tagCalls <= TagLimit)
  /\ [](\A r \in 1..Len(runs) :
          runs[r].pc \in {"tagging", "taggingPending"} => runs[r].fetched <= TagLimit)
  /\ [][\A r \in 1..Len(runs) :
          (StepOf(r) /\ Len(store') = Len(store) + 1 /\ runs[r].fetched > TagLimit)
            => store'[Len(store')].tags = <<>>]_vars

\* C2's case: five tagging calls made, and the sixth file on its way to the
\* store without tags.
C2_Witness ==
  \E r \in 1..Len(runs) :
    /\ runs[r].pc = "add"
    /\ runs[r].fetched = TagLimit + 1
    /\ runs[r].tagCalls = TagLimit
    /\ runs[r].tags = <<>>
    /\ Len(store) < MaxStore

\* C3: when a file does not decode, no record is added for it, the step
\* touches neither isIndexing nor the message, the run goes on with the
\* next file of the list (or with loadLibrary after the last), and at the
\* end of the loop every file has been counted.
C3_DecodeFailureIsLocal ==
  /\ [][\A r \in 1..Len(runs) :
          (StepOf(r) /\ runs[r].pc = "thumbnail" /\ runs[r].file.data = "corrupt")
            => /\ store' = store
               /\ isIndexing' = isIndexing
               /\ errorMessage' = errorMessage
               /\ lastStep' = "decodeError"
               /\ IF runs[r].fetched < runs[r].totalCount
                  THEN runs'[r].pc = "lookup" /\ runs'[r].fetched = runs[r].fetched + 1
                  ELSE runs'[r].pc = "loadLibrary"]_vars
  /\ [](\A r \in 1..Len(runs) :
          runs[r].pc = "loadLibrary"
            => runs[r].fetched = runs[r].totalCount
               /\ runs[r].processedCount = runs[r].totalCount)

\* C3's case: the first file failed to decode and the run is at the lookup
\* for the second.
C3_Witness ==
  \E r \in 1..Len(runs) :
    /\ lastStep = "decodeError"
    /\ runs[r].pc = "lookup"
    /\ runs[r].fetched = 2
    /\ runs[r].processedCount = 1
    /\ isIndexing
    /\ store = <<>>

\* C4: a store error (the lookup or the add raises) aborts the run: no
\* further file is looked up, isIndexing is false, an error message is set
\* and the records are as before. (The code counts the file as failed and
\* goes on.)
C4_StoreErrorAbortsRun ==
  [][\A r \in 1..Len(runs) :
       (StepOf(r) /\ lastStep' = "storeError")
         => /\ runs'[r].pc # "lookup"
            /\ ~isIndexing'
            /\ errorMessage' # NoError
            /\ store' = store]_vars

\* A call of processFileList with a list that holds no image-type file.
CallWithoutImages == lastStep' = "noImage"

\* C5: a call with a list that holds no image-type file sets the message,
\* adds no record, starts no run (so no thumbnail, fingerprint or tagging
\* call), and leaves isIndexing false.
C5_NoImageFiles ==
  [][CallWithoutImages
       => /\ errorMessage' = NoImagesMessage
          /\ ~isIndexing'
          /\ store' = store
          /\ runs' = runs]_vars

\* C5's case: the message is up after a call without images, made when the
\* store already held a record.
C5_Witness ==
  /\ errorMessage = NoImagesMessage
  /\ lastStep = "noImage"
  /\ ~isIndexing
  /\ Len(store) > 0

\* A step of run r that ends the iteration of one file.
IterationEnds(r) ==
  /\ StepOf(r)
  /\ runs[r].pc \in {"lookup", "thumbnail", "add"}
  /\ runs'[r].pc \in {"lookup", "loadLibrary"}

\* p is 100 * count / total rounded to a nearest integer.
IsRoundedPercent(p, count, total) ==
  /\ 2 * (p * total - 100 * count) <= total
  /\ 2 * (100 * count - p * total) <= total

\* What a run has reported after count files.
Reported(count, total) == IF count = 0 THEN 0 ELSE Percentages[total][count]

\* Math.round((count / total) * 100) for every list of up to MaxTotal
\* files: a nearest integer of the percentage, not below the value for
\* count - 1, and 100 for count = total.
PercentagesAreRounded ==
  \A total \in 1..MaxTotal :
    /\ \A count \in 1..total :
         /\ IsRoundedPercent(Percentages[total][count], count, total)
         /\ Reported(count, total) >= Reported(count - 1, total)
    /\ Percentages[total][total] = 100

\* C6: every file, persisted, skipped or failed, adds exactly 1 to
\* processedCount; the progress the run reports is the rounded percentage
\* of processedCount, it is not below what the run reported before and is
\* 100 after the last file.
C6_Progress ==
  /\ [][\A r \in 1..Len(runs) :
          IterationEnds(r)
            => /\ runs'[r].processedCount = runs[r].processedCount + 1
               /\ lastStep' \in {"persisted", "skipped", "decodeError", "storeError"}
               /\ progress' = Reported(runs'[r].processedCount, runs[r].totalCount)
               /\ progress' >= Reported(runs[r].processedCount, runs[r].totalCount)
               /\ runs'[r].pc = "loadLibrary" => progress' = 100]_vars
  /\ [][\A r \in 1..Len(runs) :
          (StepOf(r) /\ ~IterationEnds(r))
            => runs'[r].processedCount = runs[r].processedCount /\ progress' = progress]_vars
  /\ [](\A r \in 1..Len(runs) :
          runs[r].processedCount =
            (IF runs[r].pc = "loadLibrary" THEN runs[r].fetched ELSE runs[r].fetched - 1))
  /\ [](PercentagesAreRounded)

\* C6's case: one of three files done, by the skip branch, and 33 shown.
C6_Witness ==
  \E r \in 1..Len(runs) :
    /\ runs[r].totalCount = 3
    /\ runs[r].processedCount = 1
    /\ lastStep = "skipped"
    /\ progress = 33

\* C7: every result the views publish has a similarity in [0,1]. (A file
\* name and a tag that both match add up to 1.8, and an image that carries
\* a relevant tag twice gets 2 / 1.)
C7_SimilarityInUnitRange ==
  \A i \in 1..Len(searchResults) :
    /\ 0 <= searchResults[i].similarity.num
    /\ searchResults[i].similarity.num <= searchResults[i].similarity.den

\* C8: every published list is in descending order of similarity, results
\* of equal similarity in library order. (findDuplicates publishes its list
\* unsorted.)
C8_ResultsOrdered ==
  \A i, j \in 1..Len(searchResults) :
    i < j =>
      /\ ~Less(searchResults[i].similarity, searchResults[j].similarity)
      /\ ~Less(searchResults[j].similarity, searchResults[i].similarity)
           => searchResults[i].image.id < searchResults[j].image.id

\* C9: equal thumbnails get equal fingerprints, so the records of the same
\* picture indexed twice carry the same pHash. (The code draws the bits at
\* random.)
C9_FingerprintIsDeterministic ==
  \A i, j \in 1..Len(store) :
    store[i].thumbnail = store[j].thumbnail => store[i].pHash = store[j].pHash

\* C10: every run that has started finishes: isIndexing goes back to false.
\* (A file the FileReader cannot read, or a tagging call that is never
\* answered, leaves the run waiting for ever.)
C10_RunFinishes == isIndexing ~> ~isIndexing

\* An image matches the query lexically when its lower-cased file name, or
\* one of its lower-cased tags, contains the lower-cased query.
MatchesLexically(img, query) ==
  \/ includes(toLowerCase(img.fileName), toLowerCase(query))
  \/ \E i \in 1..Len(img.tags) : includes(toLowerCase(img.tags[i]), toLowerCase(query))

LexicalMatches(imgs, query) ==
  {i \in 1..Len(imgs) : MatchesLexically(imgs[i], query)}

\* C11: handleSearch calls searchByDescription only when no image matches
\* the query lexically; when some image matches, the call is not made and
\* the results are exactly the matching images, each once.
C11_ExpansionOnlyWithoutLexicalMatch ==
  /\ [][Len(searches') > Len(searches)
          => /\ LexicalMatches(images, searchQuery) = {}
             /\ searches' = Append(searches, [images |-> images, query |-> searchQuery])]_vars
  /\ [][(trim(searchQuery) # <<>> /\ LexicalMatches(images, searchQuery) # {})
          => Len(searches') <= Len(searches)]_vars
  /\ [](\A i \in 1..Len(searches) :
          LexicalMatches(searches[i].images, searches[i].query) = {})
  /\ [](resultsFrom.path = "semantic"
          => LexicalMatches(resultsFrom.images, resultsFrom.query) = {})
  /\ [](resultsFrom.path = "lexical"
          => \A matching \in {LexicalMatches(resultsFrom.images, resultsFrom.query)} :
               /\ {searchResults[i].image : i \in 1..Len(searchResults)}
                    = {resultsFrom.images[i] : i \in matching}
               /\ Len(searchResults) = Cardinality(matching))

\* C11's case: a search answered by the lexical pass alone, on a library
\* whose tags would have allowed the call, with an image left out.
C11_Witness ==
  /\ resultsFrom.path = "lexical"
  /\ resultsFrom.images = images
  /\ searches = <<>>
  /\ allTags(images) # {}
  /\ LexicalMatches(images, resultsFrom.query) # {}
  /\ Len(searchResults) = Cardinality(LexicalMatches(images, resultsFrom.query))
  /\ Len(searchResults) < Len(images)

\* The images the last findDuplicates ran on.
ScannedImages == resultsFrom.images

\* The images findDuplicates has published as matches.
IsPublishedMatch(img) == \E i \in 1..Len(searchResults) : searchResults[i].image = img

\* The representatives the loop holds when it comes to image n.
RepresentativesBefore(n) == duplicateScan(ScannedImages, n - 1).seenHashes

IsRepresentativeAfter(n) ==
  \E k \in 1..Len(duplicateScan(ScannedImages, n).seenHashes) :
    duplicateScan(ScannedImages, n).seenHashes[k].image = ScannedImages[n]

\* C12: findDuplicates attaches an image to an earlier representative
\* exactly when its fingerprint is at Hamming distance <= 5 from one of them
\* (5 included), and makes it a representative exactly when every
\* representative is more than 5 away. (The code tests dist < 5, so an image
\* exactly 5 bits away starts a cluster of its own.)
C12_GroupedUpToFiveBits ==
  resultsFrom.path = "duplicates" =>
    \A n \in 1..Len(ScannedImages) :
      ScannedImages[n].pHash # NoHash =>
        LET reps == RepresentativesBefore(n)
            close == \E k \in 1..Len(reps) :
                       hammingDistance(reps[k].hash, ScannedImages[n].pHash) <= DuplicateThreshold
        IN /\ close <=> IsPublishedMatch(ScannedImages[n])
           /\ ~close <=> IsRepresentativeAfter(n)

\* The grouping of findDuplicates, as sets of image ids: every
\* representative with the images attached to it.
Groups ==
  LET scan == duplicateScan(ScannedImages, Len(ScannedImages)) IN
  { {scan.seenHashes[k].image.id}
      \cup {scan.attached[a].image.id :
              a \in {b \in 1..Len(scan.attached) :
                       scan.attached[b].existingImg = scan.seenHashes[k].image}}
    : k \in 1..Len(scan.seenHashes) }

\* The graph of brute-force pairwise comparison: images i and j are linked
\* when the threshold test of findDuplicates accepts their distance.
Linked(i, j) == withinThreshold(hammingDistance(ScannedImages[i].pHash, ScannedImages[j].pHash))

\* The graph as the set of neighbours of every image.
Neighbours == [i \in 1..Len(ScannedImages) |-> {j \in 1..Len(ScannedImages) : Linked(i, j)}]

RECURSIVE Reachable(_, _)
Reachable(graph, S) ==
  LET T == S \cup UNION {graph[i] : i \in S}
  IN IF T = S THEN S ELSE Reachable(graph, T)

ComponentsOf(graph) == {Reachable(graph, {i}) : i \in DOMAIN graph}

\* A chain: a ~ b ~ c with a and c not linked.
HasChain(graph) ==
  \E b \in DOMAIN graph : \E a, c \in graph[b] : c \notin graph[a]

\* C13 as stated: the groups of findDuplicates are the connected components
\* of the linked graph, chains included.
C13_GroupsAreComponents ==
  resultsFrom.path = "duplicates" => Groups = ComponentsOf(Neighbours)

\* The greedy first-match grouping: the groups partition the library, each
\* with one representative; an image is attached to the earliest
\* representative before it that it is linked to, and is a representative
\* when there is none; every group lies inside one component, and the groups
\* are the components when the graph has no chain.
GreedyGrouping(scan, groups, graph) ==
  LET reps == {scan.seenHashes[k].image.id : k \in 1..Len(scan.seenHashes)}
      matches == {scan.attached[a] : a \in 1..Len(scan.attached)}
  IN /\ UNION groups = DOMAIN graph
     /\ \A g, h \in groups : g # h => g \cap h = {}
     /\ \A g \in groups : Cardinality(g \cap reps) = 1
     /\ \A n \in DOMAIN graph :
          LET earlier == {r \in reps : r < n /\ r \in graph[n]} IN
          IF earlier = {} THEN n \in reps
          ELSE \E m \in matches :
                 /\ m.image.id = n
                 /\ m.existingImg.id \in earlier
                 /\ \A r \in earlier : m.existingImg.id <= r
     /\ \A g \in groups : \E n \in g : g \subseteq Reachable(graph, {n})
     /\ ~HasChain(graph) => groups = ComponentsOf(graph)

\* C13, amended: the grouping of findDuplicates is the greedy first-match
\* grouping. Every group lies inside one connected component of the linked
\* graph, and the grouping is the set of components whenever the library
\* has no chain a ~ b ~ c with a and c not linked.
C13_GroupsAreGreedy ==
  resultsFrom.path = "duplicates" =>
    \A scan \in {duplicateScan(ScannedImages, Len(ScannedImages))} :
      \A groups \in {Groups} :
        \A graph \in {Neighbours} : GreedyGrouping(scan, groups, graph)

\* C13's case: a chain whose ends lie in different groups, and an image
\* linked to two representatives.
C13_Witness ==
  /\ resultsFrom.path = "duplicates"
  /\ Len(searchResults) = 1
  /\ HasChain(Neighbours)
  /\ Groups # ComponentsOf(Neighbours)
  /\ \E n, r1, r2 \in 1..Len(ScannedImages) :
        /\ r1 < r2 /\ r2 < n
        /\ Linked(r1, n) /\ Linked(r2, n) /\ ~Linked(r1, r2)
        /\ {r1, n} \in Groups

\* The files of the folder whose downscaled raster has no pixels.
ZeroAreaFiles ==
  {f \in SliverFiles :
     f.data = "ok"
     /\ (canvasSize(f.width, f.height).width = 0 \/ canvasSize(f.width, f.height).height = 0)}

\* C14: a file whose downscaled raster has zero area gets no fingerprint:
\* the fingerprint step fails, the run goes on with the next file, and no
\* record is stored for it. (calculatePHash does not read the thumbnail, so
\* the file gets a fingerprint like any other and its record is stored.)
C14_ZeroAreaIsSkipped ==
  /\ \A r \in 1..Len(runs) :
       runs[r].pc \in {"tagging", "taggingPending", "add"} => runs[r].file \notin ZeroAreaFiles
  /\ \A i \in 1..Len(store) :
       \A f \in ZeroAreaFiles :
         (store[i].fileName = f.name /\ store[i].fileSize = f.size)
           => store[i].pHash = NoHash

====
